---- MODULE Spec2Model ----
(***************************************************************************)
(* vibe-match: the four matchers (toBeSimilarTo, toMention,                *)
(* toSatisfyCriteria, toBeVectorSimilarTo) run against an inference and an *)
(* embedding back end.  One behaviour is one assertion: the matcher is     *)
(* invoked, runs synchronously up to its first await (validation and the   *)
(* issue of every back-end call), and is then resumed by the back end's    *)
(* responses, which arrive in any order.                                   *)
(***************************************************************************)
EXTENDS Integers, Sequences, FiniteSets, TLC

VARIABLES config, inv, phase, calls, results, criteriaResults, embed, outcome, setup

vars == <<config, inv, phase, calls, results, criteriaResults, embed, outcome, setup>>

(***************************************************************************)
(* Bounds of the exploration.                                              *)
(***************************************************************************)
MaxSamples == 3
MaxCriteria == 2
MaxCalls == 4

(***************************************************************************)
(* JavaScript values.  An optional value is <<>> (undefined) or <<v>>.     *)
(* A value carries its typeof tag; an array carries its elements.          *)
(***************************************************************************)
Undefined == <<>>

Some(v) == <<v>>

Opt(S) == {Undefined} \cup {Some(v) : v \in S}

Str(s) == [t |-> "string", s |-> s, elems |-> <<>>]

NonStr(t, s) == [t |-> t, s |-> s, elems |-> <<>>]

Arr(es) == [t |-> "array", s |-> "", elems |-> es]

IsString(v) == v.t = "string"

IsArray(v) == v.t = "array"

(* a number as the code's floating point sees it: num/den, 0/0 being NaN   *)
Ratio(n, d) == [num |-> n, den |-> d]

(* variant: a division by zero gives 0                                     *)
DivideOrZero(a, b) == IF b = 0 THEN Ratio(0, 1) ELSE Ratio(a, b)

(* a / b in floating point: no error is raised, 0 / 0 is NaN               *)
Divide(a, b) == Ratio(a, b)

IsNaN(r) == r.den = 0

(* r >= t on numbers; every comparison with NaN is false                   *)
GreaterEq(r, t) == r.den # 0 /\ t.den # 0 /\ r.num * t.den >= t.num * r.den

(* a > b/2                                                                 *)
MoreThanHalf(a, b) == 2 * a > b

(* x ?? d, and the default of a destructured option                        *)
OrElse(x, d) == IF x = Undefined THEN d ELSE x[1]

(***************************************************************************)
(* Program constants.                                                      *)
(***************************************************************************)
DEFAULT_SIMILARITY_PROMPT == "DEFAULT_SIMILARITY_PROMPT"

DEFAULT_MENTION_PROMPT == "DEFAULT_MENTION_PROMPT"

DEFAULT_SATISFY_CRITERIA_PROMPT == "DEFAULT_SATISFY_CRITERIA_PROMPT"

SimilarityDefaultSamples == 5

CriteriaDefaultSamples == 3

DefaultThreshold == Ratio(3, 4)

VectorDefaultThreshold == Ratio(17, 20)

DefaultLevel == "normal"

DefaultMode == "all"

ErrCompareString == "You must compare against a string"

ErrTestedString == "The value being tested must be a string"

ErrCriteriaType == "Criteria must be a string or an array of strings"

ErrNoCriterion == "At least one criterion must be provided"

ErrBothStrings == "Both actual and expected must be strings"

ErrEmbeddings == "Failed to generate embeddings"

ErrBackend == "back-end call failed"

(***************************************************************************)
(* Inputs.                                                                 *)
(***************************************************************************)
TextValues == {Str("text")}

NonTextValues == {NonStr("number", "123")}

ScalarValues == TextValues \cup NonTextValues

Thresholds == {Ratio(-1, 4), Ratio(0, 4), Ratio(1, 2), Ratio(3, 4), Ratio(1, 1), Ratio(5, 4)}

Levels == {"loose", "normal", "strict"}

Modes == {"all", "any", "threshold"}

NoOptions ==
  [samples |-> Undefined, threshold |-> Undefined, level |-> Undefined,
   mode |-> Undefined, systemPrompt |-> Undefined, languageModel |-> Undefined,
   embeddingModel |-> Undefined]

(* the sampling options over every batch size, the other options absent    *)
SamplingOptions ==
  {[NoOptions EXCEPT !.samples = s, !.threshold = t] :
     s \in Opt(0..MaxSamples), t \in Opt(Thresholds)}

(* the options that only shape the request, over short batches             *)
RequestOptions ==
  {[NoOptions EXCEPT !.samples = Some(s), !.systemPrompt = p, !.languageModel = m] :
     s \in 1..2, p \in Opt({"perCallPrompt"}), m \in Opt({"overrideLM"})}

LevelOptions ==
  {[NoOptions EXCEPT !.samples = Some(s), !.level = Some(l)] : s \in 1..2, l \in Levels}

Prompts(p) == [toBeSimilarTo |-> p, toMention |-> p, toSatisfyCriteria |-> p]

Configs ==
  {[languageModel |-> "configLM", embeddingModel |-> "configEM", prompts |-> ps] :
     ps \in {Undefined, Some(Prompts(Undefined)), Some(Prompts(Some("configPrompt")))}}

(* config.prompts?.m                                                       *)
ConfigPrompt(cfg, m) == IF cfg.prompts = Undefined THEN Undefined ELSE cfg.prompts[1][m]

(***************************************************************************)
(* The Model Resolver (providers.ts).  A model string is a sequence of     *)
(* tokens: a provider name, another word, or the separator ":".  Indices   *)
(* are 0-based as in the source; indexOf answers -1 when there is none.    *)
(***************************************************************************)
MaxModelStringLen == 3

ProviderNames == {"openai", "anthropic", "google", "mistral", "xai"}

Separator == ":"

ModelTokens == ProviderNames \cup {"other", Separator}

ModelStrings == UNION {[1..n -> ModelTokens] : n \in 0..MaxModelStringLen}

(* VibeMatchApiKeys: each key is optional; an empty key is falsy.          *)
ApiKeys ==
  [ProviderNames -> {Undefined, Some("sk")}]
    \cup {[p \in ProviderNames |-> IF p = q THEN Some("") ELSE Some("sk")] : q \in ProviderNames}

NoApiKeys == [p \in ProviderNames |-> Undefined]

Truthy(k) == k # Undefined /\ k[1] # ""

LastIndexOf(s, ch) ==
  IF \E i \in 1..Len(s) : s[i] = ch
    THEN (CHOOSE i \in 1..Len(s) : s[i] = ch /\ \A j \in (i + 1)..Len(s) : s[j] # ch) - 1
    ELSE -1

IndexOf(s, ch) ==
  IF \E i \in 1..Len(s) : s[i] = ch
    THEN (CHOOSE i \in 1..Len(s) : s[i] = ch /\ \A j \in 1..(i - 1) : s[j] # ch) - 1
    ELSE -1

(* s.slice(from, to)                                                       *)
Slice(s, from, to) == SubSeq(s, from + 1, to)

(* validProviders.includes(provider)                                       *)
Includes(validProviders, provider) ==
  \E i \in 1..Len(validProviders) : provider = <<validProviders[i]>>

NoError == [message |-> "", subject |-> <<>>, supported |-> <<>>]

InvalidModelString(modelString) ==
  [message |-> "Invalid model string", subject |-> modelString, supported |-> <<>>]

UnknownProvider(provider, validProviders) ==
  [message |-> "Unknown provider", subject |-> provider, supported |-> validProviders]

ApiKeyRequired(name) ==
  [message |-> "API key is required", subject |-> <<name>>, supported |-> <<>>]

Parsed(provider, model) ==
  [ok |-> TRUE, provider |-> provider, model |-> model, error |-> NoError]

ParseFailed(e) == [ok |-> FALSE, provider |-> <<>>, model |-> <<>>, error |-> e]

ParseModelString(modelString, validProviders) ==
  LET colonIndex == IndexOf(modelString, Separator)
  IN  IF colonIndex = -1 THEN ParseFailed(InvalidModelString(modelString))
      ELSE LET provider == Slice(modelString, 0, colonIndex)
               model == Slice(modelString, colonIndex + 1, Len(modelString))
           IN  IF ~Includes(validProviders, provider)
                 THEN ParseFailed(UnknownProvider(provider, validProviders))
                 ELSE Parsed(provider, model)

LANGUAGE_PROVIDERS == <<"openai", "anthropic", "google", "mistral", "xai">>

EMBEDDING_PROVIDERS_ALL == LANGUAGE_PROVIDERS

EMBEDDING_PROVIDERS == <<"openai", "google", "mistral">>

(* A handle made by a provider factory: createX({apiKey})(model).           *)
Handle(kind, provider, model, apiKey) ==
  [kind |-> kind, provider |-> provider, model |-> model, apiKey |-> apiKey]

NoHandle == Handle("undefined", "", <<>>, "")

Returned(h) == [ok |-> TRUE, handle |-> h, error |-> NoError]

Threw(e) == [ok |-> FALSE, handle |-> NoHandle, error |-> e]

(* One case of the switch: the key check, then the factory.                *)
ProviderCase(kind, name, model, apiKeys) ==
  IF ~Truthy(apiKeys[name]) THEN Threw(ApiKeyRequired(name))
  ELSE Returned(Handle(kind, name, model, apiKeys[name][1]))

ResolveLanguageModel(modelString, apiKeys) ==
  LET parsed == ParseModelString(modelString, LANGUAGE_PROVIDERS)
  IN  IF ~parsed.ok THEN Threw(parsed.error)
      ELSE CASE parsed.provider = <<"openai">> ->
                  ProviderCase("language", "openai", parsed.model, apiKeys)
             [] parsed.provider = <<"anthropic">> ->
                  ProviderCase("language", "anthropic", parsed.model, apiKeys)
             [] parsed.provider = <<"google">> ->
                  ProviderCase("language", "google", parsed.model, apiKeys)
             [] parsed.provider = <<"mistral">> ->
                  ProviderCase("language", "mistral", parsed.model, apiKeys)
             [] parsed.provider = <<"xai">> ->
                  ProviderCase("language", "xai", parsed.model, apiKeys)
             [] OTHER -> Returned(NoHandle)

ResolveEmbeddingModel(modelString, apiKeys) ==
  LET parsed == ParseModelString(modelString, EMBEDDING_PROVIDERS)
  IN  IF ~parsed.ok THEN Threw(parsed.error)
      ELSE CASE parsed.provider = <<"openai">> ->
                  ProviderCase("embedding", "openai", parsed.model, apiKeys)
             [] parsed.provider = <<"google">> ->
                  ProviderCase("embedding", "google", parsed.model, apiKeys)
             [] parsed.provider = <<"mistral">> ->
                  ProviderCase("embedding", "mistral", parsed.model, apiKeys)
             [] OTHER -> Returned(NoHandle)

(***************************************************************************)
(* vibeMatchers / resolveConfig (matchers.ts).  The languageModel and      *)
(* embeddingModel of the given configuration are either model objects or   *)
(* model strings.                                                          *)
(***************************************************************************)
ModelObject(ref, hasDoGenerate) ==
  [t |-> "object", doGenerate |-> hasDoGenerate, s |-> <<>>, ref |-> ref]

ModelString(s) == [t |-> "string", doGenerate |-> FALSE, s |-> s, ref |-> ""]

ConfigPrompts == {c.prompts : c \in Configs}

CustomModelConfigs ==
  {[languageModel |-> ModelObject("customLM", TRUE),
    embeddingModel |-> ModelObject("customEM", FALSE),
    apiKeys |-> NoApiKeys, prompts |-> ps] : ps \in ConfigPrompts}

ConfigModelStrings ==
  {<<"openai", ":", "other">>, <<"anthropic", ":", "other">>, <<"mistral", ":", ":">>,
   <<"other", ":", "other">>, <<"other">>}

StringConfigs ==
  {[languageModel |-> ModelString(l), embeddingModel |-> ModelString(e),
    apiKeys |-> k, prompts |-> ps] :
     l \in ConfigModelStrings, e \in ConfigModelStrings, k \in ApiKeys,
     ps \in {Undefined, Some(Prompts(Some("configPrompt")))}}

NoConfigInput ==
  [languageModel |-> ModelString(<<>>), embeddingModel |-> ModelString(<<>>),
   apiKeys |-> NoApiKeys, prompts |-> Undefined]

IsCustomModelConfigNever(cfg) == FALSE

IsCustomModelConfig(cfg) ==
  cfg.languageModel.t = "object" /\ cfg.languageModel.doGenerate

ResolvedConfig(languageModel, embeddingModel, prompts) ==
  [languageModel |-> languageModel, embeddingModel |-> embeddingModel, prompts |-> prompts]

NoResolvedConfig == ResolvedConfig(NoHandle, NoHandle, Undefined)

ResolverCall(resolver, modelString, apiKeys) ==
  [resolver |-> resolver, modelString |-> modelString, apiKeys |-> apiKeys]

ConfigReturned(cfg, resolverCalls) ==
  [kind |-> "config", handle |-> NoHandle, error |-> NoError, config |-> cfg,
   resolverCalls |-> resolverCalls, matchers |-> {}]

ConfigThrew(e, resolverCalls) ==
  [kind |-> "error", handle |-> NoHandle, error |-> e, config |-> NoResolvedConfig,
   resolverCalls |-> resolverCalls, matchers |-> {}]

ResolveConfig(cfg) ==
  IF IsCustomModelConfig(cfg)
    THEN ConfigReturned(ResolvedConfig(cfg.languageModel, cfg.embeddingModel, cfg.prompts), <<>>)
    ELSE LET lmCall == ResolverCall("resolveLanguageModel", cfg.languageModel.s, cfg.apiKeys)
             emCall == ResolverCall("resolveEmbeddingModel", cfg.embeddingModel.s, cfg.apiKeys)
             lm == ResolveLanguageModel(cfg.languageModel.s, cfg.apiKeys)
             em == ResolveEmbeddingModel(cfg.embeddingModel.s, cfg.apiKeys)
         IN  IF ~lm.ok THEN ConfigThrew(lm.error, <<lmCall>>)
             ELSE IF ~em.ok THEN ConfigThrew(em.error, <<lmCall, emCall>>)
             ELSE ConfigReturned(ResolvedConfig(lm.handle, em.handle, cfg.prompts),
                                 <<lmCall, emCall>>)

MatcherNames == {"toBeSimilarTo", "toBeVectorSimilarTo", "toMention", "toSatisfyCriteria"}

(* variant: the matchers whose handle was resolved are built all the same  *)
MatchersOfResolvedHandles(resolved) ==
  IF resolved.kind = "error"
    THEN [resolved EXCEPT !.matchers =
            IF Len(resolved.resolverCalls) = 2
              THEN {"toBeSimilarTo", "toMention", "toSatisfyCriteria"} ELSE {}]
    ELSE [resolved EXCEPT !.matchers = MatcherNames]

(* lines 52-61: resolveConfig runs first; an error it throws leaves         *)
(* vibeMatchers before the object of matchers is built                     *)
MatchersOf(resolved) ==
  IF resolved.kind = "error" THEN resolved
  ELSE [resolved EXCEPT !.matchers = MatcherNames]

(* What a direct call of a resolver gave back.                             *)
ResolverOutcome(r) ==
  [kind |-> IF r.ok THEN "handle" ELSE "error", handle |-> r.handle, error |-> r.error,
   config |-> NoResolvedConfig, resolverCalls |-> <<>>, matchers |-> {}]

NoSetup ==
  [op |-> "none", modelString |-> <<>>, apiKeys |-> NoApiKeys, input |-> NoConfigInput,
   returned |-> [kind |-> "none", handle |-> NoHandle, error |-> NoError,
                 config |-> NoResolvedConfig, resolverCalls |-> <<>>, matchers |-> {}]]

(***************************************************************************)
(* The state of one assertion.                                             *)
(***************************************************************************)
NoInvocation == [matcher |-> "none", actual |-> Str(""), arg |-> Str(""), options |-> NoOptions]

NoOutcome == [kind |-> "none", pass |-> FALSE, error |-> "", call |-> 0, message |-> <<>>]

Verdict(p, msg) == [kind |-> "verdict", pass |-> p, error |-> "", call |-> 0, message |-> msg]

Thrown(e, i) == [kind |-> "error", pass |-> FALSE, error |-> e, call |-> i, message |-> <<>>]

NoEmbed == [status |-> "none", model |-> "", values |-> <<>>, embeddings |-> <<>>]

Init ==
  /\ config \in Configs
  /\ inv = NoInvocation
  /\ phase = "idle"
  /\ calls = <<>>
  /\ results = <<>>
  /\ criteriaResults = <<>>
  /\ embed = NoEmbed
  /\ outcome = NoOutcome
  /\ setup = NoSetup

(***************************************************************************)
(* generateObject: one request to the inference back end.                  *)
(***************************************************************************)
Request(model, system, prompt) ==
  [model |-> model, system |-> system, prompt |-> prompt, status |-> "pending",
   response |-> Undefined]

(* the text of the explanation the back end returns for the i-th issued    *)
(* request; <<>> is the empty text                                         *)
Explanation(i) == <<i>>

EmptyText == <<>>

(* the structured object of a response                                     *)
Object(pass, i) == [pass |-> pass, explanation |-> Explanation(i)]

SimilarityPayload(actual, similarTo, level) ==
  [actual |-> actual.s, second |-> similarTo.s, level |-> level]

MentionPayload(actual, concept) ==
  [actual |-> actual.s, second |-> concept.s, level |-> ""]

CriterionPayload(text, criterion) ==
  [actual |-> text.s, second |-> criterion.s, level |-> ""]

(* variant: only the first argument is checked                            *)
FirstIsString(a, b) == IsString(a)

(* typeof a !== "string" || typeof b !== "string", negated                *)
BothStrings(a, b) == IsString(a) /\ IsString(b)

(* variant: a loop that awaits each sample before starting the next       *)
AwaitEachInTurn(n) == IF n = 0 THEN 0 ELSE 1

(* the number of sample callbacks that reach their back-end call before the *)
(* matcher first yields: map() runs every callback up to its first await    *)
IssuedBeforeFirstAwait(n) == n

(* numPassing / passCount: results.filter((r) => r.pass).length            *)
RECURSIVE CountPassing(_)
(* variant: the filter is negated, the failing results are counted         *)
CountFailing(rs) == Cardinality({i \in 1..Len(rs) : ~rs[i].pass})

CountPassing(rs) ==
  IF rs = <<>> THEN 0
  ELSE (IF Head(rs).pass THEN 1 ELSE 0) + CountPassing(Tail(rs))

(* the values of a fully resolved Promise.all array                        *)
Values(arr) == [i \in 1..Len(arr) |-> arr[i][1]]

AllFulfilled(arr) == \A i \in 1..Len(arr) : arr[i] # Undefined

(* variant: results pushed as they arrive                                 *)
StoreInCompletionOrder(arr, i, v) ==
  LET k == CHOOSE j \in 1..Len(arr) :
             arr[j] = Undefined /\ \A h \in 1..(j - 1) : arr[h] # Undefined
  IN  [arr EXCEPT ![k] = Some(v)]

(* Promise.all keeps the value of the i-th promise at index i              *)
PromiseAllStore(arr, i, v) == [arr EXCEPT ![i] = Some(v)]

(***************************************************************************)
(* toBeSimilarTo and toMention.                                            *)
(***************************************************************************)
(* variant: the configured prompt wins over the per-call prompt            *)
ResolvePromptConfigFirst(systemPrompt, configPrompt, default) ==
  OrElse(configPrompt, OrElse(systemPrompt, default))

(* systemPrompt ?? config.prompts?.m ?? DEFAULT                            *)
ResolvePrompt(systemPrompt, configPrompt, default) ==
  OrElse(systemPrompt, OrElse(configPrompt, default))

(* variant: the override is not read                                       *)
ResolveModelIgnoringOverride(languageModel, cfg) == cfg.languageModel

(* line 122: languageModel ?? config.languageModel                         *)
ResolveModel(languageModel, cfg) == OrElse(languageModel, cfg.languageModel)

(* variant: the resolved handle is written back to the configuration      *)
ConfigStoresResolvedModel(cfg, resolvedModel) == [cfg EXCEPT !.languageModel = resolvedModel]

(* lines 116-122: resolvedPrompt and resolvedModel are local constants; the *)
(* configuration captured by the matcher is only read                       *)
ConfigAfterResolve(cfg, resolvedModel) == cfg

(* variant: the default of the criteria matcher                           *)
SimilaritySamplesDefault3(options) == OrElse(options.samples, 3)

(* line 108 / 226: samples = 5                                             *)
SimilaritySamples(options) == OrElse(options.samples, SimilarityDefaultSamples)

(* variant: the level moves the threshold, loose accepting any ratio       *)
ThresholdLoweredWhenLoose(options) ==
  IF options.level = Some("loose") THEN Ratio(0, 4)
  ELSE OrElse(options.threshold, DefaultThreshold)

(* lines 110 / 228, part_002 line 103: threshold = 0.75                     *)
ThresholdOption(options) == OrElse(options.threshold, DefaultThreshold)

(* variant: the comparison is turned round, passRatio <= threshold         *)
PassAtMostThreshold(ratio, threshold) == GreaterEq(threshold, ratio)

(* variant: passRatio > threshold                                          *)
PassStrictlyAbove(ratio, threshold) == GreaterEq(ratio, threshold) /\ ~GreaterEq(threshold, ratio)

(* line 147 / 254: passRatio >= threshold                                  *)
PassAtThreshold(ratio, threshold) == GreaterEq(ratio, threshold)

(* lines 140-148 / 247-255: the verdict over a resolved batch              *)
ConsensusResult(rs, samples, threshold) ==
  LET numPassing == CountPassing(rs)
      passRatio == Divide(numPassing, samples)
  IN  Verdict(PassAtThreshold(passRatio, threshold),
              [percentage |-> Ratio(passRatio.num * 100, passRatio.den),
               samples |-> samples,
               explanations |-> [i \in 1..Len(rs) |-> rs[i].explanation]])

(* the synchronous part of a sampling matcher once its inputs are valid    *)
IssueBatch(request, samples, threshold) ==
  LET n == IssuedBeforeFirstAwait(samples)
  IN  /\ calls' = [i \in 1..n |-> request]
      /\ results' = [i \in 1..samples |-> Undefined]
      /\ IF samples = 0
           THEN /\ phase' = "settled"
                /\ outcome' = ConsensusResult(<<>>, samples, threshold)
           ELSE /\ phase' = "pending"
                /\ outcome' = outcome

ToBeSimilarTo(actual, similarTo, options) ==
  LET samples == SimilaritySamples(options)
      level == OrElse(options.level, DefaultLevel)
      threshold == ThresholdOption(options)
      resolvedPrompt ==
        ResolvePrompt(options.systemPrompt, ConfigPrompt(config, "toBeSimilarTo"),
                      DEFAULT_SIMILARITY_PROMPT)
      resolvedModel == ResolveModel(options.languageModel, config)
  IN  /\ phase = "idle"
      /\ inv' = [matcher |-> "toBeSimilarTo", actual |-> actual, arg |-> similarTo,
                 options |-> options]
      /\ IF ~BothStrings(actual, similarTo)
           THEN /\ phase' = "settled"
                /\ outcome' = Thrown(ErrCompareString, 0)
                /\ UNCHANGED <<calls, results>>
           ELSE IssueBatch(Request(resolvedModel, resolvedPrompt,
                                   SimilarityPayload(actual, similarTo, level)),
                           samples, threshold)
      /\ config' = ConfigAfterResolve(config, resolvedModel)
      /\ UNCHANGED <<setup, criteriaResults, embed>>

ToMention(actual, concept, options) ==
  LET samples == SimilaritySamples(options)
      threshold == ThresholdOption(options)
      resolvedPrompt ==
        ResolvePrompt(options.systemPrompt, ConfigPrompt(config, "toMention"),
                      DEFAULT_MENTION_PROMPT)
  IN  /\ phase = "idle"
      /\ inv' = [matcher |-> "toMention", actual |-> actual, arg |-> concept,
                 options |-> options]
      /\ IF ~BothStrings(actual, concept)
           THEN /\ phase' = "settled"
                /\ outcome' = Thrown(ErrCompareString, 0)
                /\ UNCHANGED <<calls, results>>
           ELSE IssueBatch(Request(config.languageModel, resolvedPrompt,
                                   MentionPayload(actual, concept)),
                           samples, threshold)
      /\ UNCHANGED <<setup, config, criteriaResults, embed>>

(***************************************************************************)
(* toSatisfyCriteria.                                                      *)
(***************************************************************************)
CriterionTexts == <<"criterion A", "criterion B", "criterion C", "criterion D">>

CriteriaList(k) == [i \in 1..k |-> Str(CriterionTexts[i])]

(* a string, an empty list, lists of strings, lists whose last element is  *)
(* not a string, and a value that is neither a string nor a list           *)
CriteriaInputs ==
  {Str(CriterionTexts[1]), NonStr("number", "123")}
    \cup {Arr(CriteriaList(k)) : k \in 0..MaxCriteria}
    \cup {Arr(Append(CriteriaList(k - 1), NonStr("number", "123"))) : k \in 1..MaxCriteria}

CriteriaOptions ==
  {[NoOptions EXCEPT !.samples = s, !.threshold = t, !.mode = m] :
     s \in Opt(0..MaxSamples), t \in Opt({Ratio(0, 4), Ratio(1, 2), Ratio(1, 1)}),
     m \in Opt(Modes)}

(* variant: some() in place of every()                                    *)
IsCriteriaShapeSome(criteria) ==
  \/ IsString(criteria)
  \/ (IsArray(criteria) /\ \E i \in 1..Len(criteria.elems) : IsString(criteria.elems[i]))

(* lines 120-125: a string, or an array whose every element is a string    *)
IsCriteriaShape(criteria) ==
  \/ IsString(criteria)
  \/ (IsArray(criteria) /\ \A i \in 1..Len(criteria.elems) : IsString(criteria.elems[i]))

(* line 104: samples = 3                                                   *)
CriteriaSamples(options) == OrElse(options.samples, CriteriaDefaultSamples)

(* the criterion whose batch holds the k-th issued request                 *)
CriterionOf(k, samples) == ((k - 1) \div samples) + 1

(* variant: one sample of every criterion, then the next sample            *)
IssueOrderSampleMajor(total, samples) ==
  [k \in 1..(total * samples) |-> ((k - 1) % total) + 1]

(* lines 136-148: the outer map runs the callback of criterion c up to its *)
(* inner Promise.all, which starts all its samples, before the callback of *)
(* criterion c + 1                                                         *)
IssueOrder(total, samples) ==
  [k \in 1..(total * samples) |-> CriterionOf(k, samples)]

Block(c, samples) == ((c - 1) * samples + 1)..(c * samples)

BlockValues(arr, c, samples) == [j \in 1..samples |-> arr[(c - 1) * samples + j][1]]

(* sampleResults.find((r) => r.pass === want)                              *)
RECURSIVE Find(_, _)
(* variant: the last matching element                                      *)
FindLast(rs, want) ==
  IF \E i \in 1..Len(rs) : rs[i].pass = want
    THEN Some(rs[CHOOSE i \in 1..Len(rs) :
                   rs[i].pass = want /\ \A j \in (i + 1)..Len(rs) : rs[j].pass # want])
    ELSE Undefined

Find(rs, want) ==
  IF rs = <<>> THEN Undefined
  ELSE IF Head(rs).pass = want THEN Some(Head(rs))
  ELSE Find(Tail(rs), want)

(* variant: passCount >= samples / 2                                       *)
MajorityAtLeastHalf(passCount, samples) == 2 * passCount >= samples

(* variant: passCount >= samples / 2, the half rounded down                *)
MajorityAtLeastFloorHalf(passCount, samples) == passCount >= samples \div 2

(* line 152: passCount > samples / 2                                       *)
MajorityPass(passCount, samples) == MoreThanHalf(passCount, samples)

(* lines 150-164: the evaluation of one criterion over its resolved batch  *)
CriterionEvaluation(criterion, rs, samples) ==
  LET passCount == CountPassing(rs)
      majorityPass == MajorityPass(passCount, samples)
      found == Find(rs, majorityPass)
      relevantResult ==
        IF found # Undefined THEN found
        ELSE IF rs = <<>> THEN Undefined ELSE Some(rs[1])
  IN  [criterion |-> criterion,
       pass |-> majorityPass,
       explanation |-> IF relevantResult = Undefined THEN EmptyText
                       ELSE relevantResult[1].explanation,
       sampleResults |-> [i \in 1..Len(rs) |-> rs[i].pass]]

(* variant: the case "all" falls through to "any"                          *)
OverallPassAllAsAny(mode, passedCount, total, threshold) ==
  CASE mode = "all" -> passedCount > 0
    [] mode = "any" -> passedCount > 0
    [] mode = "threshold" -> GreaterEq(Divide(passedCount, total), threshold)

(* variant: every mode compares the share of passed criteria with the      *)
(* threshold                                                                *)
OverallPassAlwaysByThreshold(mode, passedCount, total, threshold) ==
  GreaterEq(Divide(passedCount, total), threshold)

(* lines 172-183: the switch over the mode                                 *)
OverallPass(mode, passedCount, total, threshold) ==
  CASE mode = "all" -> passedCount = total
    [] mode = "any" -> passedCount > 0
    [] mode = "threshold" -> GreaterEq(Divide(passedCount, total), threshold)

RECURSIVE CountTrue(_)
CountTrue(bs) ==
  IF bs = <<>> THEN 0 ELSE (IF Head(bs) THEN 1 ELSE 0) + CountTrue(Tail(bs))

(* lines 168-211: the verdict over the evaluated criteria                  *)
CriteriaVerdict(crs, total, mode, threshold, samples) ==
  LET passedCount == CountPassing(crs)
      passPercentage == Divide(passedCount, total)
  IN  Verdict(OverallPass(mode, passedCount, total, threshold),
              [passedCount |-> passedCount,
               total |-> total,
               percentage |-> Ratio(passPercentage.num * 100, passPercentage.den),
               lines |-> [c \in 1..Len(crs) |->
                            [pass |-> crs[c].pass,
                             criterion |-> crs[c].criterion,
                             tally |-> CountTrue(crs[c].sampleResults),
                             samples |-> samples,
                             explanation |-> crs[c].explanation]]])

ToSatisfyCriteria(actual, criteria, options) ==
  LET mode == OrElse(options.mode, DefaultMode)
      threshold == ThresholdOption(options)
      samples == CriteriaSamples(options)
      resolvedPrompt ==
        ResolvePrompt(options.systemPrompt, ConfigPrompt(config, "toSatisfyCriteria"),
                      DEFAULT_SATISFY_CRITERIA_PROMPT)
      criteriaArray == IF IsString(criteria) THEN <<criteria>> ELSE criteria.elems
      total == Len(criteriaArray)
      evaluated == [c \in 1..total |->
                      Some(CriterionEvaluation(criteriaArray[c].s, <<>>, samples))]
  IN  /\ phase = "idle"
      /\ total * samples <= MaxCalls
      /\ inv' = [matcher |-> "toSatisfyCriteria", actual |-> actual, arg |-> criteria,
                 options |-> options]
      /\ IF ~IsString(actual)
           THEN /\ phase' = "settled"
                /\ outcome' = Thrown(ErrTestedString, 0)
                /\ UNCHANGED <<calls, results, criteriaResults>>
           ELSE IF ~IsCriteriaShape(criteria)
           THEN /\ phase' = "settled"
                /\ outcome' = Thrown(ErrCriteriaType, 0)
                /\ UNCHANGED <<calls, results, criteriaResults>>
           ELSE IF total = 0
           THEN /\ phase' = "settled"
                /\ outcome' = Thrown(ErrNoCriterion, 0)
                /\ UNCHANGED <<calls, results, criteriaResults>>
           ELSE /\ calls' = [k \in 1..(total * samples) |->
                               Request(config.languageModel, resolvedPrompt,
                                       CriterionPayload(actual,
                                                        criteriaArray[IssueOrder(total, samples)[k]]))]
                /\ results' = [k \in 1..(total * samples) |-> Undefined]
                /\ IF samples = 0
                     THEN /\ criteriaResults' = evaluated
                          /\ phase' = "settled"
                          /\ outcome' = CriteriaVerdict(Values(evaluated), total, mode,
                                                        threshold, samples)
                     ELSE /\ criteriaResults' = [c \in 1..total |-> Undefined]
                          /\ phase' = "pending"
                          /\ outcome' = outcome
      /\ UNCHANGED <<setup, config, embed>>

(***************************************************************************)
(* The inference back end answers one pending request.                     *)
(***************************************************************************)
IsSampling(m) == m \in {"toBeSimilarTo", "toMention"}

(* what checkSimilarity / checkMention / checkCriterion return             *)
CheckResult(request, object) ==
  [criterion |-> IF inv.matcher = "toSatisfyCriteria" THEN request.prompt.second ELSE "",
   pass |-> object.pass,
   explanation |-> object.explanation]

GenerateObjectResolve(i, pass) ==
  LET object == Object(pass, i)
      stored == PromiseAllStore(results, i, CheckResult(calls[i], object))
      samples == IF IsSampling(inv.matcher) THEN SimilaritySamples(inv.options)
                 ELSE CriteriaSamples(inv.options)
      threshold == ThresholdOption(inv.options)
      mode == OrElse(inv.options.mode, DefaultMode)
      c == CriterionOf(i, samples)
      blockDone == \A k \in Block(c, samples) : stored[k] # Undefined
      evaluated ==
        IF blockDone
          THEN [criteriaResults EXCEPT
                  ![c] = Some(CriterionEvaluation(calls[i].prompt.second,
                                                  BlockValues(stored, c, samples), samples))]
          ELSE criteriaResults
  IN  /\ i \in 1..Len(calls)
      /\ calls[i].status = "pending"
      /\ calls' = [calls EXCEPT ![i].status = "fulfilled", ![i].response = Some(object)]
      /\ results' = stored
      /\ IF IsSampling(inv.matcher)
           THEN /\ criteriaResults' = criteriaResults
                /\ IF phase = "pending" /\ AllFulfilled(stored)
                     THEN /\ phase' = "settled"
                          /\ outcome' = ConsensusResult(Values(stored), samples, threshold)
                     ELSE UNCHANGED <<phase, outcome>>
           ELSE /\ criteriaResults' = evaluated
                /\ IF phase = "pending" /\ AllFulfilled(evaluated)
                     THEN /\ phase' = "settled"
                          /\ outcome' = CriteriaVerdict(Values(evaluated), Len(evaluated),
                                                        mode, threshold, samples)
                     ELSE UNCHANGED <<phase, outcome>>
      /\ UNCHANGED <<setup, config, inv, embed>>

(* variant: the rejection is caught and reported as a failing verdict      *)
RejectionSwallowed(i) == Verdict(FALSE, <<>>)

(* variant: the error reported is that of the first issued request         *)
RejectionOutcomeFirstIssued(i) == Thrown(ErrBackend, 1)

(* nothing catches the rejection: the matcher's promise rejects with it    *)
RejectionOutcome(i) == Thrown(ErrBackend, i)

(* a rejected request rejects the enclosing Promise.all at once            *)
GenerateObjectReject(i) ==
  /\ i \in 1..Len(calls)
  /\ calls[i].status = "pending"
  /\ calls' = [calls EXCEPT ![i].status = "rejected"]
  /\ IF phase = "pending"
       THEN /\ phase' = "settled"
            /\ outcome' = RejectionOutcome(i)
       ELSE UNCHANGED <<phase, outcome>>
  /\ UNCHANGED <<setup, config, inv, results, criteriaResults, embed>>

(***************************************************************************)
(* toBeVectorSimilarTo.                                                    *)
(***************************************************************************)
Vectors == {<<1, 0>>, <<0, 1>>, <<3, 4>>, <<-1, 0>>}

EmbeddingLists == {<<>>} \cup {<<v>> : v \in Vectors} \cup {<<v, w>> : v, w \in Vectors}

VectorThresholds == {Ratio(0, 1), Ratio(3, 5), Ratio(1, 1)}

VectorOptions ==
  {[NoOptions EXCEPT !.threshold = t, !.embeddingModel = m] :
     t \in Opt(VectorThresholds), m \in Opt({"overrideEM"})}

RECURSIVE Dot(_, _)
Dot(a, b) == IF a = <<>> THEN 0 ELSE Head(a) * Head(b) + Dot(Tail(a), Tail(b))

(* dot(a,b) / (|a| |b|), kept as the dot product and the squared norms     *)
CosineSimilarity(a, b) == [dot |-> Dot(a, b), sq |-> Dot(a, a) * Dot(b, b)]

(* variant: similarity > threshold                                         *)
SimilarityAbove(sim, t) ==
  LET l == sim.dot * t.den
      l2 == l * l
      r2 == t.num * t.num * sim.sq
  IN  IF l >= 0 THEN t.num < 0 \/ l2 > r2
      ELSE t.num < 0 /\ l2 < r2

(* variant: one text per embedding request                                 *)
EmbedValuesFirstOnly(actual, expected) == <<actual.s>>

(* line 25: values: [actual, expected]                                     *)
EmbedValues(actual, expected) == <<actual.s, expected.s>>

(* variant: missing embeddings reported as a failing verdict               *)
EmbeddingsFailureAsVerdict == Verdict(FALSE, <<>>)

(* line 30: throw new Error("Failed to generate embeddings")               *)
EmbeddingsFailure == Thrown(ErrEmbeddings, 0)

(* line 29: !actualEmbedding || !expectedEmbedding                         *)
EmbeddingMissing(embeddings) == Len(embeddings) < 2

(* similarity >= threshold, by squares                                     *)
SimilarityAtLeast(sim, t) ==
  LET l == sim.dot * t.den
      l2 == l * l
      r2 == t.num * t.num * sim.sq
  IN  IF l >= 0 THEN t.num <= 0 \/ l2 >= r2
      ELSE t.num < 0 /\ l2 <= r2

ToBeVectorSimilarTo(actual, expected, options) ==
  /\ phase = "idle"
  /\ inv' = [matcher |-> "toBeVectorSimilarTo", actual |-> actual, arg |-> expected,
             options |-> options]
  /\ IF ~BothStrings(actual, expected)
       THEN /\ phase' = "settled"
            /\ outcome' = Thrown(ErrBothStrings, 0)
            /\ embed' = embed
       ELSE /\ phase' = "pending"
            /\ outcome' = outcome
            /\ embed' = [status |-> "pending", model |-> config.embeddingModel,
                         values |-> EmbedValues(actual, expected), embeddings |-> <<>>]
  /\ UNCHANGED <<setup, config, calls, results, criteriaResults>>

EmbedManyResolve(embeddings) ==
  LET threshold == OrElse(inv.options.threshold, VectorDefaultThreshold)
      similarity == CosineSimilarity(embeddings[1], embeddings[2])
      pass == SimilarityAtLeast(similarity, threshold)
  IN  /\ embed.status = "pending"
      /\ embed' = [embed EXCEPT !.status = "fulfilled", !.embeddings = embeddings]
      /\ phase' = "settled"
      /\ IF EmbeddingMissing(embeddings)
           THEN outcome' = EmbeddingsFailure
           ELSE outcome' = Verdict(pass,
                                   [similarity |-> similarity,
                                    threshold |-> threshold,
                                    echo |-> IF pass THEN <<>> ELSE embed.values])
      /\ UNCHANGED <<setup, config, inv, calls, results, criteriaResults>>

EmbedManyReject ==
  /\ embed.status = "pending"
  /\ embed' = [embed EXCEPT !.status = "rejected"]
  /\ phase' = "settled"
  /\ outcome' = Thrown(ErrBackend, 0)
  /\ UNCHANGED <<setup, config, inv, calls, results, criteriaResults>>

(***************************************************************************)
(* The specification.                                                      *)
(***************************************************************************)
SimilarityOptions == SamplingOptions \cup RequestOptions \cup LevelOptions

MentionOptions == SamplingOptions \cup RequestOptions

InvokeToBeSimilarTo ==
  \E a \in ScalarValues, b \in ScalarValues, o \in SimilarityOptions : ToBeSimilarTo(a, b, o)

InvokeToMention ==
  \E a \in ScalarValues, b \in ScalarValues, o \in MentionOptions : ToMention(a, b, o)

InvokeToSatisfyCriteria ==
  \E a \in ScalarValues, c \in CriteriaInputs,
     o \in CriteriaOptions \cup RequestOptions : ToSatisfyCriteria(a, c, o)

InvokeToBeVectorSimilarTo ==
  \E a \in ScalarValues, b \in ScalarValues \cup {Str("other text")}, o \in VectorOptions :
     ToBeVectorSimilarTo(a, b, o)

Resolve == \E i \in 1..Len(calls), pass \in BOOLEAN : GenerateObjectResolve(i, pass)

Reject == \E i \in 1..Len(calls) : GenerateObjectReject(i)

EmbedResolve == \E e \in EmbeddingLists : EmbedManyResolve(e)

Next ==
  \/ InvokeToBeSimilarTo
  \/ InvokeToMention
  \/ InvokeToSatisfyCriteria
  \/ InvokeToBeVectorSimilarTo
  \/ Resolve
  \/ Reject
  \/ EmbedResolve
  \/ EmbedManyReject

Spec == Init /\ [][Next]_vars

(***************************************************************************)
(* Setup time: one call of a resolver or of vibeMatchers.                  *)
(***************************************************************************)
CallResolveLanguageModel(modelString, apiKeys) ==
  /\ setup' = [op |-> "resolveLanguageModel", modelString |-> modelString,
               apiKeys |-> apiKeys, input |-> NoConfigInput,
               returned |-> ResolverOutcome(ResolveLanguageModel(modelString, apiKeys))]
  /\ UNCHANGED <<config, inv, phase, calls, results, criteriaResults, embed, outcome>>

CallResolveEmbeddingModel(modelString, apiKeys) ==
  /\ setup' = [op |-> "resolveEmbeddingModel", modelString |-> modelString,
               apiKeys |-> apiKeys, input |-> NoConfigInput,
               returned |-> ResolverOutcome(ResolveEmbeddingModel(modelString, apiKeys))]
  /\ UNCHANGED <<config, inv, phase, calls, results, criteriaResults, embed, outcome>>

VibeMatchers(cfg) ==
  /\ setup' = [op |-> "vibeMatchers", modelString |-> <<>>, apiKeys |-> cfg.apiKeys,
               input |-> cfg, returned |-> MatchersOf(ResolveConfig(cfg))]
  /\ UNCHANGED <<config, inv, phase, calls, results, criteriaResults, embed, outcome>>

(* Setup happens once: nothing is called after the first call.             *)
InvokeResolveLanguageModel ==
  /\ setup.op = "none"
  /\ \E s \in ModelStrings, k \in ApiKeys : CallResolveLanguageModel(s, k)

InvokeResolveEmbeddingModel ==
  /\ setup.op = "none"
  /\ \E s \in ModelStrings, k \in ApiKeys : CallResolveEmbeddingModel(s, k)

InvokeVibeMatchers ==
  /\ setup.op = "none"
  /\ \E cfg \in CustomModelConfigs \cup StringConfigs : VibeMatchers(cfg)

SetupInit == Init /\ config.prompts = Undefined

SetupNext ==
  \/ InvokeResolveLanguageModel
  \/ InvokeResolveEmbeddingModel
  \/ InvokeVibeMatchers

SetupSpec == SetupInit /\ [][SetupNext]_vars

TypeOK ==
  /\ phase \in {"idle", "pending", "settled"}
  /\ outcome.kind \in {"none", "verdict", "error"}
  /\ (phase = "settled") = (outcome.kind # "none")

(***************************************************************************)
(* What the back end answered, read off the requests in issue order.       *)
(***************************************************************************)
Answered(i) == calls[i].response # Undefined

JudgedPass(i) == Answered(i) /\ calls[i].response[1].pass

AllAnswered == \A i \in 1..Len(calls) : calls[i].status = "fulfilled"

PassingIn(S) == Cardinality({i \in S : JudgedPass(i)})

SomeRejected == \E i \in 1..Len(calls) : calls[i].status = "rejected"

GivenThreshold == OrElse(inv.options.threshold, DefaultThreshold)

GivenMode == OrElse(inv.options.mode, "all")

InvalidInputTypeErrors == {ErrCompareString, ErrTestedString, ErrBothStrings}

ValidationErrors == InvalidInputTypeErrors \cup {ErrCriteriaType, ErrNoCriterion}

PassedValidation == phase # "idle" /\ outcome.error \notin ValidationErrors

GivenCriteria == IF IsString(inv.arg) THEN <<inv.arg>> ELSE inv.arg.elems

(* the number of requests the options and the arguments call for           *)
PlannedCalls ==
  CASE IsSampling(inv.matcher) -> OrElse(inv.options.samples, 5)
    [] inv.matcher = "toSatisfyCriteria" ->
         Len(GivenCriteria) * OrElse(inv.options.samples, 3)
    [] OTHER -> 0

(***************************************************************************)
(* C1: in toBeSimilarTo and toMention, once all n >= 1 judgments have been *)
(* returned, pass is true exactly when passCount/n >= threshold, a ratio   *)
(* equal to the threshold included.                                        *)
(***************************************************************************)
C1_PassIffRatioAtLeastThreshold ==
  (IsSampling(inv.matcher) /\ Len(calls) >= 1 /\ AllAnswered) =>
    /\ outcome.kind = "verdict"
    /\ outcome.pass =
         (PassingIn(1..Len(calls)) * GivenThreshold.den >= GivenThreshold.num * Len(calls))

C1_Witness ==
  /\ IsSampling(inv.matcher)
  /\ Len(calls) = 2
  /\ AllAnswered
  /\ PassingIn(1..2) = 1
  /\ inv.options.threshold = Some(Ratio(1, 2))
  /\ outcome.kind = "verdict"
  /\ outcome.pass

(***************************************************************************)
(* C2: in toSatisfyCriteria a criterion's verdict is true exactly when     *)
(* strictly more than half of its samples passed, whatever the threshold   *)
(* option is; a tie fails the criterion.                                   *)
(***************************************************************************)
C2_CriterionVerdictIsStrictMajority ==
  (inv.matcher = "toSatisfyCriteria" /\ outcome.kind = "verdict") =>
    LET samples == OrElse(inv.options.samples, 3)
    IN  \A c \in 1..Len(GivenCriteria) :
          /\ criteriaResults[c] # Undefined
          /\ criteriaResults[c][1].pass = (2 * PassingIn(Block(c, samples)) > samples)
          /\ outcome.message.lines[c].pass = criteriaResults[c][1].pass

C2_Witness ==
  /\ inv.matcher = "toSatisfyCriteria"
  /\ outcome.kind = "verdict"
  /\ inv.options.samples = Some(2)
  /\ inv.options.threshold = Some(Ratio(1, 2))
  /\ PassingIn(Block(1, 2)) = 1
  /\ ~criteriaResults[1][1].pass

(***************************************************************************)
(* C3: over a non-empty criteria list, mode all (the default) passes iff   *)
(* every criterion verdict is true, mode any iff at least one is, and mode *)
(* threshold iff passedCount/totalCriteria >= threshold, inclusive.        *)
(***************************************************************************)
C3_ModeAggregation ==
  (inv.matcher = "toSatisfyCriteria" /\ outcome.kind = "verdict") =>
    LET total == Len(GivenCriteria)
        passed == {c \in 1..total : criteriaResults[c][1].pass}
    IN  /\ total >= 1
        /\ GivenMode = "all" => (outcome.pass = (passed = 1..total))
        /\ GivenMode = "any" => (outcome.pass = (passed # {}))
        /\ GivenMode = "threshold" =>
             (outcome.pass =
                (Cardinality(passed) * GivenThreshold.den >= GivenThreshold.num * total))

C3_Witness ==
  /\ inv.matcher = "toSatisfyCriteria"
  /\ outcome.kind = "verdict"
  /\ Len(GivenCriteria) = 2
  /\ inv.options.mode = Some("threshold")
  /\ inv.options.threshold = Some(Ratio(1, 2))
  /\ criteriaResults[1][1].pass
  /\ ~criteriaResults[2][1].pass
  /\ outcome.pass

(***************************************************************************)
(* C4: once a judgment request of an assertion has failed, the assertion   *)
(* has ended with a back-end error of a failed request and has no verdict; *)
(* the failed request is not issued again.                                 *)
(***************************************************************************)
C4_FailedCallFailsAssertion ==
  SomeRejected =>
    /\ outcome.kind = "error"
    /\ outcome.error = ErrBackend
    /\ outcome.call \in 1..Len(calls)
    /\ calls[outcome.call].status = "rejected"
    /\ Len(calls) = PlannedCalls

C4_Witness ==
  /\ Len(calls) >= 2
  /\ calls[1].status = "fulfilled"
  /\ JudgedPass(1)
  /\ calls[2].status = "rejected"
  /\ \A i \in 3..Len(calls) : calls[i].status = "fulfilled"
  /\ outcome = Thrown(ErrBackend, 2)

(***************************************************************************)
(* C5: in toBeSimilarTo and toMention, whenever some request has           *)
(* completed, all N requests of the assertion had already been started.    *)
(***************************************************************************)
C5_AllStartedBeforeFirstCompletion ==
  (IsSampling(inv.matcher) /\ PassedValidation) =>
    \A i \in 1..Len(calls) :
      calls[i].status # "pending" => Len(calls) = OrElse(inv.options.samples, 5)

C5_Witness ==
  /\ IsSampling(inv.matcher)
  /\ Len(calls) = 3
  /\ calls[1].status = "fulfilled"
  /\ calls[2].status = "pending"
  /\ calls[3].status = "pending"

(***************************************************************************)
(* C6: the verdict of toBeSimilarTo and toMention is a function of the     *)
(* judgments by issue index, whatever the order of completion: pass        *)
(* depends on the count of passing judgments and the message lists the     *)
(* explanations in issue order.                                            *)
(***************************************************************************)
C6_ResultIndependentOfCompletionOrder ==
  /\ (IsSampling(inv.matcher) /\ PassedValidation) =>
       \A i \in 1..Len(results) :
         IF i <= Len(calls) /\ Answered(i)
           THEN /\ results[i] # Undefined
                /\ results[i][1].pass = calls[i].response[1].pass
                /\ results[i][1].explanation = calls[i].response[1].explanation
           ELSE results[i] = Undefined
  /\ (IsSampling(inv.matcher) /\ outcome.kind = "verdict") =>
       /\ outcome.message.explanations =
            [i \in 1..Len(calls) |-> calls[i].response[1].explanation]
       /\ outcome.message.samples = Len(calls)

C6_Witness ==
  /\ IsSampling(inv.matcher)
  /\ phase = "pending"
  /\ Len(calls) = 3
  /\ calls[1].status = "pending"
  /\ calls[2].status = "pending"
  /\ calls[3].status = "fulfilled"
  /\ results[3] # Undefined
  /\ results[1] = Undefined

(***************************************************************************)
(* C7: the number of inference requests of an assertion is the one its     *)
(* arguments and options call for (samples, default 5, for toBeSimilarTo   *)
(* and toMention; criteria x samples, default 3, for toSatisfyCriteria),   *)
(* from the moment the matcher yields and whatever the judgments are.      *)
(***************************************************************************)
C7_CallCountFixed ==
  (inv.matcher \in {"toBeSimilarTo", "toMention", "toSatisfyCriteria"} /\ PassedValidation) =>
    /\ Len(calls) = PlannedCalls
    /\ Len(results) = PlannedCalls

C7_Witness ==
  /\ inv.matcher = "toBeSimilarTo"
  /\ inv.options.samples = Undefined
  /\ Len(calls) = 5
  /\ AllAnswered
  /\ ~JudgedPass(1)
  /\ ~JudgedPass(2)
  /\ outcome.kind = "verdict"
  /\ inv.options.threshold = Undefined
  /\ ~outcome.pass

(***************************************************************************)
(* C8: a matcher given a value that is not a string for a text argument    *)
(* ends with its invalid-input error and issues no inference and no        *)
(* embedding request.                                                      *)
(***************************************************************************)
NonTextArgument ==
  \/ inv.matcher \in {"toBeSimilarTo", "toMention", "toBeVectorSimilarTo"}
       /\ (~IsString(inv.actual) \/ ~IsString(inv.arg))
  \/ inv.matcher = "toSatisfyCriteria" /\ ~IsString(inv.actual)

C8_NonTextRejectedBeforeAnyCall ==
  NonTextArgument =>
    /\ outcome.kind = "error"
    /\ outcome.error \in InvalidInputTypeErrors
    /\ calls = <<>>
    /\ embed.status = "none"

C8_Witness ==
  /\ inv.matcher = "toBeVectorSimilarTo"
  /\ IsString(inv.actual)
  /\ ~IsString(inv.arg)
  /\ outcome = Thrown(ErrBothStrings, 0)
  /\ embed.status = "none"

(***************************************************************************)
(* C9: toSatisfyCriteria takes a criterion string as a one-element list,   *)
(* or a list of strings; any other shape ends with the criteria-type       *)
(* error, an empty list with the no-criterion error, and in both cases no  *)
(* inference request is issued.                                            *)
(***************************************************************************)
C9_CriteriaNormalisation ==
  (inv.matcher = "toSatisfyCriteria" /\ IsString(inv.actual)) =>
    LET criteria == inv.arg
        samples == OrElse(inv.options.samples, 3)
        listOfStrings ==
          IsArray(criteria) /\ \A i \in 1..Len(criteria.elems) : criteria.elems[i].t = "string"
    IN  /\ criteria.t = "string" =>
             /\ outcome.error \notin ValidationErrors
             /\ Len(calls) = samples
             /\ \A k \in 1..Len(calls) : calls[k].prompt.second = criteria.s
        /\ (listOfStrings /\ criteria.elems # <<>>) =>
             /\ outcome.error \notin ValidationErrors
             /\ Len(calls) = Len(criteria.elems) * samples
             /\ \A k \in 1..Len(calls) :
                  calls[k].prompt.second = criteria.elems[CriterionOf(k, samples)].s
        /\ (criteria.t # "string" /\ ~listOfStrings) =>
             /\ outcome = Thrown(ErrCriteriaType, 0)
             /\ calls = <<>>
        /\ (IsArray(criteria) /\ criteria.elems = <<>>) =>
             /\ outcome = Thrown(ErrNoCriterion, 0)
             /\ calls = <<>>

C9_Witness ==
  /\ inv.matcher = "toSatisfyCriteria"
  /\ IsString(inv.actual)
  /\ IsArray(inv.arg)
  /\ inv.arg.elems = <<>>
  /\ outcome = Thrown(ErrNoCriterion, 0)
  /\ calls = <<>>

(***************************************************************************)
(* C10: when toMention or toSatisfyCriteria is given the languageModel     *)
(* option, every judgment request of the assertion goes to that handle.    *)
(***************************************************************************)
C10_LanguageModelOverrideUsed ==
  (inv.matcher \in {"toMention", "toSatisfyCriteria"}
     /\ inv.options.languageModel # Undefined) =>
    \A i \in 1..Len(calls) : calls[i].model = inv.options.languageModel[1]

(***************************************************************************)
(* C11: when toBeVectorSimilarTo is given the embeddingModel option, the   *)
(* embedding request goes to that handle and not to the configured one.    *)
(***************************************************************************)
C11_EmbeddingModelOverrideUsed ==
  (inv.matcher = "toBeVectorSimilarTo"
     /\ inv.options.embeddingModel # Undefined
     /\ embed.status # "none") =>
    embed.model = inv.options.embeddingModel[1]

(***************************************************************************)
(* C12: every judgment request of toBeSimilarTo goes to the languageModel  *)
(* option when it is given, and to the configured handle otherwise.        *)
(***************************************************************************)
C12_SimilarityModelResolution ==
  (inv.matcher = "toBeSimilarTo" /\ PassedValidation) =>
    \A i \in 1..Len(calls) :
      calls[i].model = IF inv.options.languageModel # Undefined
                         THEN inv.options.languageModel[1]
                         ELSE config.languageModel

C12_Witness ==
  /\ inv.matcher = "toBeSimilarTo"
  /\ inv.options.languageModel = Some("overrideLM")
  /\ Len(calls) = 2
  /\ AllAnswered
  /\ calls[1].model = "overrideLM"
  /\ calls[2].model = "overrideLM"
  /\ config.languageModel # "overrideLM"

(***************************************************************************)
(* C13: the system prompt of every judgment request of toBeSimilarTo,      *)
(* toMention and toSatisfyCriteria is the systemPrompt option when given,  *)
(* else the matcher's prompt of the configuration when given, else the     *)
(* matcher's default prompt.                                               *)
(***************************************************************************)
DefaultPromptOf(m) ==
  CASE m = "toBeSimilarTo" -> DEFAULT_SIMILARITY_PROMPT
    [] m = "toMention" -> DEFAULT_MENTION_PROMPT
    [] m = "toSatisfyCriteria" -> DEFAULT_SATISFY_CRITERIA_PROMPT

ExpectedPrompt ==
  IF inv.options.systemPrompt # Undefined THEN inv.options.systemPrompt[1]
  ELSE IF config.prompts # Undefined /\ config.prompts[1][inv.matcher] # Undefined
    THEN config.prompts[1][inv.matcher][1]
  ELSE DefaultPromptOf(inv.matcher)

C13_PromptResolution ==
  (inv.matcher \in {"toBeSimilarTo", "toMention", "toSatisfyCriteria"} /\ PassedValidation) =>
    \A i \in 1..Len(calls) : calls[i].system = ExpectedPrompt

C13_Witness ==
  /\ inv.matcher \in {"toBeSimilarTo", "toMention", "toSatisfyCriteria"}
  /\ inv.options.systemPrompt = Some("perCallPrompt")
  /\ ConfigPrompt(config, inv.matcher) = Some("configPrompt")
  /\ Len(calls) >= 1
  /\ \A i \in 1..Len(calls) : calls[i].system = "perCallPrompt"

C13_ConfigLayerReached ==
  /\ inv.matcher = "toMention"
  /\ Len(calls) >= 1
  /\ calls[1].system = "configPrompt"

C13_DefaultLayerReached ==
  /\ inv.matcher = "toSatisfyCriteria"
  /\ Len(calls) >= 1
  /\ config.prompts # Undefined
  /\ calls[1].system = DEFAULT_SATISFY_CRITERIA_PROMPT

(***************************************************************************)
(* C14: with the sample count and the judgments fixed, a passing           *)
(* toBeSimilarTo / toMention result stays passing under every lower        *)
(* threshold.                                                              *)
(***************************************************************************)
AtMost(t, u) == t.num * u.den <= u.num * t.den

C14_LowerThresholdKeepsPass ==
  (IsSampling(inv.matcher) /\ outcome.kind = "verdict" /\ outcome.pass) =>
    \A t \in Thresholds :
      AtMost(t, GivenThreshold) =>
        ConsensusResult(Values(results), Len(calls), t).pass

C14_Witness ==
  /\ IsSampling(inv.matcher)
  /\ outcome.kind = "verdict"
  /\ outcome.pass
  /\ Len(calls) = 2
  /\ PassingIn(1..2) = 1
  /\ inv.options.threshold = Some(Ratio(1, 2))
  /\ \E t \in Thresholds : AtMost(t, GivenThreshold) /\ t # GivenThreshold

(***************************************************************************)
(* C15: toBeVectorSimilarTo passes exactly when the cosine similarity of   *)
(* the two returned vectors is >= threshold, equality included; the        *)
(* threshold is 0.85 when the option is absent.                            *)
(***************************************************************************)
Norm(v) == CHOOSE k \in 0..Dot(v, v) : k * k = Dot(v, v)

GivenVectorThreshold ==
  IF inv.options.threshold # Undefined THEN inv.options.threshold[1] ELSE Ratio(17, 20)

C15_VectorPassIffCosineAtLeastThreshold ==
  (inv.matcher = "toBeVectorSimilarTo" /\ outcome.kind = "verdict") =>
    LET a == embed.embeddings[1]
        b == embed.embeddings[2]
        t == GivenVectorThreshold
    IN  outcome.pass = (Dot(a, b) * t.den >= t.num * Norm(a) * Norm(b))

C15_Witness ==
  /\ inv.matcher = "toBeVectorSimilarTo"
  /\ outcome.kind = "verdict"
  /\ embed.embeddings = <<<<1, 0>>, <<3, 4>>>>
  /\ inv.options.threshold = Some(Ratio(3, 5))
  /\ outcome.pass

C15_DefaultThresholdReached ==
  /\ inv.matcher = "toBeVectorSimilarTo"
  /\ outcome.kind = "verdict"
  /\ embed.embeddings = <<<<0, 1>>, <<3, 4>>>>
  /\ inv.options.threshold = Undefined
  /\ ~outcome.pass

(***************************************************************************)
(* C16: toBeVectorSimilarTo with two text inputs issues one embedding      *)
(* request, for the pair [actual, expected] in this order, and no          *)
(* inference request.                                                      *)
(***************************************************************************)
C16_OneBatchedEmbeddingRequest ==
  (inv.matcher = "toBeVectorSimilarTo" /\ IsString(inv.actual) /\ IsString(inv.arg)) =>
    /\ embed.status # "none"
    /\ embed.values = <<inv.actual.s, inv.arg.s>>
    /\ calls = <<>>

C16_Witness ==
  /\ inv.matcher = "toBeVectorSimilarTo"
  /\ embed.status = "fulfilled"
  /\ embed.values = <<"text", "other text">>
  /\ calls = <<>>
  /\ outcome.kind = "verdict"

(***************************************************************************)
(* C17: when the embedding back end returns fewer than two vectors,        *)
(* toBeVectorSimilarTo ends with the embeddings-failed error and gives no  *)
(* verdict.                                                                *)
(***************************************************************************)
C17_MissingEmbeddingFails ==
  (embed.status = "fulfilled" /\ Len(embed.embeddings) < 2) =>
    /\ outcome.kind = "error"
    /\ outcome.error = ErrEmbeddings

C17_Witness ==
  /\ embed.status = "fulfilled"
  /\ Len(embed.embeddings) = 1
  /\ outcome.kind = "error"
  /\ outcome.error = ErrEmbeddings

(***************************************************************************)
(* C18: the Model Resolver splits a model string at its first ":" only:    *)
(* the provider is the text before it, the model name is everything after  *)
(* it, further ":" included; a string without ":" is rejected as an        *)
(* invalid model string.                                                   *)
(***************************************************************************)
ResolverCalled == setup.op \in {"resolveLanguageModel", "resolveEmbeddingModel"}

HasSeparator(s) == \E i \in 1..Len(s) : s[i] = ":"

(* p and m are the two sides of the first ":" of s.                        *)
SplitAtFirst(s, p, m) ==
  /\ s = p \o <<":">> \o m
  /\ \A i \in 1..Len(p) : p[i] # ":"

C18_SplitAtFirstSeparator ==
  ResolverCalled =>
    LET s == setup.modelString
        r == setup.returned
    IN  IF ~HasSeparator(s)
          THEN r.kind = "error" /\ r.error.message = "Invalid model string"
                 /\ r.error.subject = s
          ELSE \E k \in 1..Len(s) :
                 LET p == SubSeq(s, 1, k - 1)
                     m == SubSeq(s, k + 1, Len(s))
                 IN  /\ SplitAtFirst(s, p, m)
                     /\ r.error.message # "Invalid model string"
                     /\ r.kind = "handle" => (<<r.handle.provider>> = p /\ r.handle.model = m)
                     /\ r.kind = "error" => r.error.subject = p

C18_Witness ==
  /\ setup.op = "resolveLanguageModel"
  /\ setup.modelString = <<"openai", ":", ":">>
  /\ setup.returned.kind = "handle"
  /\ setup.returned.handle.provider = "openai"
  /\ setup.returned.handle.model = <<":">>

C18_InvalidFormatReached ==
  /\ setup.op = "resolveEmbeddingModel"
  /\ setup.modelString = <<"openai", "other">>
  /\ setup.returned.kind = "error"
  /\ setup.returned.error.message = "Invalid model string"

(***************************************************************************)
(* C19: for a model string with a ":", resolution fails with the unknown   *)
(* provider error exactly when the provider is outside the supported set   *)
(* of the requested kind (five providers for inference; openai, google,    *)
(* mistral for embeddings); otherwise it fails with the missing key error  *)
(* exactly when the provider's key is absent; otherwise it gives a handle. *)
(***************************************************************************)
SupportedFor(op) ==
  IF op = "resolveLanguageModel"
    THEN {"openai", "anthropic", "google", "mistral", "xai"}
    ELSE {"openai", "google", "mistral"}

HandleKindFor(op) == IF op = "resolveLanguageModel" THEN "language" ELSE "embedding"

(* The text before the first ":" of s.                                     *)
ProviderPart(s) ==
  LET k == CHOOSE i \in 1..Len(s) : s[i] = ":" /\ \A j \in 1..(i - 1) : s[j] # ":"
  IN  SubSeq(s, 1, k - 1)

CredentialAbsent(keys, name) == keys[name] = Undefined \/ keys[name] = Some("")

C19_ProviderThenCredential ==
  (ResolverCalled /\ HasSeparator(setup.modelString)) =>
    LET p == ProviderPart(setup.modelString)
        r == setup.returned
        supported == SupportedFor(setup.op)
    IN  IF ~\E n \in supported : p = <<n>>
          THEN /\ r.kind = "error"
               /\ r.error.message = "Unknown provider"
               /\ {r.error.supported[i] : i \in 1..Len(r.error.supported)} = supported
          ELSE LET n == CHOOSE x \in supported : p = <<x>>
               IN  IF CredentialAbsent(setup.apiKeys, n)
                     THEN /\ r.kind = "error"
                          /\ r.error.message = "API key is required"
                          /\ r.error.subject = <<n>>
                     ELSE /\ r.kind = "handle"
                          /\ r.handle.kind = HandleKindFor(setup.op)
                          /\ r.handle.provider = n
                          /\ r.handle.apiKey = setup.apiKeys[n][1]

C19_Witness ==
  /\ setup.op = "resolveEmbeddingModel"
  /\ setup.modelString = <<"anthropic", ":", "other">>
  /\ setup.apiKeys["anthropic"] = Some("sk")
  /\ setup.returned.kind = "error"
  /\ setup.returned.error.message = "Unknown provider"

C19_MissingCredentialReached ==
  /\ setup.op = "resolveLanguageModel"
  /\ setup.modelString = <<"xai", ":", "other">>
  /\ setup.apiKeys["xai"] = Undefined
  /\ setup.returned.kind = "error"
  /\ setup.returned.error.message = "API key is required"

C19_HandleReached ==
  /\ setup.op = "resolveEmbeddingModel"
  /\ setup.modelString = <<"google", ":", "other">>
  /\ setup.returned.kind = "handle"
  /\ setup.returned.handle.kind = "embedding"

(***************************************************************************)
(* C20: vibeMatchers given model objects never calls the Model Resolver    *)
(* and hands on both objects and the prompts as they are; given model      *)
(* strings it resolves the language string and then the embedding string   *)
(* with the given keys, and the configuration it builds holds the two      *)
(* resolved handles.                                                       *)
(***************************************************************************)
GivenModelObjects == setup.input.languageModel.t = "object"

C20_ConfigResolution ==
  (setup.op = "vibeMatchers") =>
    LET given == setup.input
        r == setup.returned
    IN  IF GivenModelObjects
          THEN /\ r.resolverCalls = <<>>
               /\ r.kind = "config"
               /\ r.config.languageModel = given.languageModel
               /\ r.config.embeddingModel = given.embeddingModel
               /\ r.config.prompts = given.prompts
          ELSE /\ Len(r.resolverCalls) \in {1, 2}
               /\ r.resolverCalls[1] =
                    [resolver |-> "resolveLanguageModel",
                     modelString |-> given.languageModel.s, apiKeys |-> given.apiKeys]
               /\ Len(r.resolverCalls) = 1 =>
                    (r.kind = "error" /\ ~ResolveLanguageModel(given.languageModel.s, given.apiKeys).ok)
               /\ Len(r.resolverCalls) = 2 =>
                    r.resolverCalls[2] =
                      [resolver |-> "resolveEmbeddingModel",
                       modelString |-> given.embeddingModel.s, apiKeys |-> given.apiKeys]
               /\ r.kind = "config" =>
                    /\ Len(r.resolverCalls) = 2
                    /\ r.config.languageModel.kind = "language"
                    /\ <<r.config.languageModel.provider, ":">> \o r.config.languageModel.model
                         = given.languageModel.s
                    /\ r.config.languageModel.apiKey
                         = given.apiKeys[r.config.languageModel.provider][1]
                    /\ r.config.embeddingModel.kind = "embedding"
                    /\ <<r.config.embeddingModel.provider, ":">> \o r.config.embeddingModel.model
                         = given.embeddingModel.s
                    /\ r.config.embeddingModel.apiKey
                         = given.apiKeys[r.config.embeddingModel.provider][1]
                    /\ r.config.prompts = given.prompts

C20_Witness ==
  /\ setup.op = "vibeMatchers"
  /\ setup.input.languageModel.t = "string"
  /\ setup.input.languageModel.s = <<"anthropic", ":", "other">>
  /\ setup.input.embeddingModel.s = <<"openai", ":", "other">>
  /\ setup.returned.kind = "config"
  /\ Len(setup.returned.resolverCalls) = 2
  /\ setup.returned.config.languageModel.provider = "anthropic"
  /\ setup.returned.config.embeddingModel.provider = "openai"

C20_ModelObjectsReached ==
  /\ setup.op = "vibeMatchers"
  /\ GivenModelObjects
  /\ setup.returned.kind = "config"
  /\ setup.returned.resolverCalls = <<>>
  /\ setup.returned.config.languageModel.ref = "customLM"
  /\ setup.returned.config.prompts # Undefined

C21_ValidationFailureReached ==
  /\ outcome.kind = "error"
  /\ outcome.error \in ValidationErrors
  /\ config \in Configs

C21_BackendFailureReached ==
  /\ outcome.kind = "error"
  /\ outcome.error = ErrBackend
  /\ config \in Configs

(***************************************************************************)
(* C22: in the modes all and any of toSatisfyCriteria the overall pass     *)
(* does not depend on the threshold: the same criteria, samples and        *)
(* judgments give the same pass under every other threshold.               *)
(***************************************************************************)
C22_ThresholdIgnoredInAllAndAny ==
  (inv.matcher = "toSatisfyCriteria" /\ outcome.kind = "verdict"
     /\ GivenMode \in {"all", "any"}) =>
    \A t \in Thresholds :
      CriteriaVerdict(Values(criteriaResults), Len(GivenCriteria), GivenMode, t,
                      OrElse(inv.options.samples, 3)).pass = outcome.pass

C22_Witness ==
  /\ inv.matcher = "toSatisfyCriteria"
  /\ outcome.kind = "verdict"
  /\ inv.options.mode = Some("all")
  /\ inv.options.threshold = Some(Ratio(0, 4))
  /\ Len(GivenCriteria) = 2
  /\ criteriaResults[1][1].pass
  /\ ~criteriaResults[2][1].pass
  /\ ~outcome.pass

C22_AnyModeReached ==
  /\ inv.matcher = "toSatisfyCriteria"
  /\ outcome.kind = "verdict"
  /\ inv.options.mode = Some("any")
  /\ inv.options.threshold = Some(Ratio(1, 1))
  /\ Len(GivenCriteria) = 2
  /\ criteriaResults[1][1].pass
  /\ ~criteriaResults[2][1].pass
  /\ outcome.pass

(***************************************************************************)
(* C23: toSatisfyCriteria starts all criteria x samples requests before    *)
(* any of them completes, criterion by criterion (every request of         *)
(* criterion c before any request of criterion c + 1), and the verdict of  *)
(* a criterion is computed from the judgments of its own requests only,    *)
(* whatever the order of completion.                                       *)
(***************************************************************************)
C23_CriteriaIssuedTogetherInOrder ==
  (inv.matcher = "toSatisfyCriteria" /\ PassedValidation) =>
    LET samples == OrElse(inv.options.samples, 3)
        total == Len(GivenCriteria)
    IN  /\ Len(calls) = total * samples
        /\ \A c \in 1..total : \A k \in Block(c, samples) :
             calls[k].prompt.second = GivenCriteria[c].s
        /\ \A c \in 1..total :
             IF \A k \in Block(c, samples) : Answered(k)
               THEN /\ criteriaResults[c] # Undefined
                    /\ criteriaResults[c][1].criterion = GivenCriteria[c].s
                    /\ criteriaResults[c][1].sampleResults =
                         [j \in 1..samples |-> JudgedPass((c - 1) * samples + j)]
                    /\ criteriaResults[c][1].pass = (2 * PassingIn(Block(c, samples)) > samples)
               ELSE criteriaResults[c] = Undefined

C23_Witness ==
  /\ inv.matcher = "toSatisfyCriteria"
  /\ phase = "pending"
  /\ Len(GivenCriteria) = 2
  /\ Len(calls) = 4
  /\ calls[1].status = "pending"
  /\ calls[2].status = "fulfilled"
  /\ calls[3].status = "fulfilled"
  /\ calls[4].status = "fulfilled"
  /\ JudgedPass(2)
  /\ ~JudgedPass(3)
  /\ JudgedPass(4)
  /\ criteriaResults[1] = Undefined
  /\ criteriaResults[2] # Undefined
  /\ ~criteriaResults[2][1].pass

(***************************************************************************)
(* C24: the explanation reported for a criterion is the one of the first   *)
(* judgment, in issue order, whose pass equals the criterion's verdict;    *)
(* the explanation of the criterion's first judgment is used only when no  *)
(* judgment equals the verdict.                                            *)
(***************************************************************************)
(* the requests of criterion c whose judgment equals its verdict           *)
Agreeing(c, samples) ==
  {k \in Block(c, samples) : JudgedPass(k) = criteriaResults[c][1].pass}

Lowest(S) == CHOOSE k \in S : \A h \in S : k <= h

C24_FirstAgreeingExplanation ==
  (inv.matcher = "toSatisfyCriteria" /\ PassedValidation) =>
    LET samples == OrElse(inv.options.samples, 3)
    IN  \A c \in 1..Len(criteriaResults) :
          (criteriaResults[c] # Undefined /\ samples >= 1) =>
            LET agreeing == Agreeing(c, samples)
                chosen == IF agreeing # {} THEN Lowest(agreeing) ELSE (c - 1) * samples + 1
            IN  /\ criteriaResults[c][1].explanation = calls[chosen].response[1].explanation
                /\ outcome.kind = "verdict" =>
                     outcome.message.lines[c].explanation
                       = calls[chosen].response[1].explanation

C24_Witness ==
  /\ inv.matcher = "toSatisfyCriteria"
  /\ outcome.kind = "verdict"
  /\ Len(calls) = 3
  /\ ~JudgedPass(1)
  /\ JudgedPass(2)
  /\ JudgedPass(3)
  /\ criteriaResults[1][1].pass
  /\ criteriaResults[1][1].explanation = Explanation(2)
  /\ outcome.message.lines[1].explanation = Explanation(2)

(***************************************************************************)
(* C25: the level of toBeSimilarTo (loose, normal, strict; normal when     *)
(* absent) appears in the payload of each request and nowhere else: the    *)
(* number of requests, the moment the assertion settles and the verdict    *)
(* are given by samples, threshold and the judgments alone.                *)
(***************************************************************************)
C25_LevelOnlyInPayload ==
  (inv.matcher = "toBeSimilarTo" /\ PassedValidation) =>
    LET n == OrElse(inv.options.samples, 5)
    IN  /\ Len(calls) = n
        /\ \A i \in 1..Len(calls) :
             calls[i].prompt =
               [actual |-> inv.actual.s, second |-> inv.arg.s,
                level |-> IF inv.options.level = Undefined THEN "normal"
                          ELSE inv.options.level[1]]
        /\ (phase = "pending") = (~AllAnswered /\ ~SomeRejected)
        /\ (outcome.kind = "verdict") = (AllAnswered /\ ~SomeRejected)
        /\ outcome.kind = "verdict" =>
             outcome.pass =
               (n >= 1 /\ PassingIn(1..n) * GivenThreshold.den >= GivenThreshold.num * n)

C25_Witness ==
  /\ inv.matcher = "toBeSimilarTo"
  /\ inv.options.level = Some("loose")
  /\ Len(calls) = 2
  /\ calls[1].prompt.level = "loose"
  /\ ~JudgedPass(1)
  /\ JudgedPass(2)
  /\ outcome.kind = "verdict"
  /\ ~outcome.pass

C25_StrictReached ==
  /\ inv.matcher = "toBeSimilarTo"
  /\ inv.options.level = Some("strict")
  /\ Len(calls) = 2
  /\ calls[2].prompt.level = "strict"
  /\ ~JudgedPass(1)
  /\ JudgedPass(2)
  /\ outcome.kind = "verdict"
  /\ ~outcome.pass

C25_DefaultLevelReached ==
  /\ inv.matcher = "toBeSimilarTo"
  /\ inv.options.level = Undefined
  /\ Len(calls) = 2
  /\ calls[1].prompt.level = "normal"
  /\ ~JudgedPass(1)
  /\ JudgedPass(2)
  /\ outcome.kind = "verdict"
  /\ ~outcome.pass

(***************************************************************************)
(* C26: with a string configuration whose language or embedding string has *)
(* no ":", names an unsupported provider or lacks its key, vibeMatchers    *)
(* fails with the resolver's error and yields no matcher, not even those   *)
(* that would not use the unresolvable handle; resolution issues no        *)
(* back-end request.                                                       *)
(***************************************************************************)
Unresolvable(op, s, keys) ==
  \/ ~HasSeparator(s)
  \/ ~\E n \in SupportedFor(op) : ProviderPart(s) = <<n>>
  \/ CredentialAbsent(keys, ProviderPart(s)[1])

ResolverErrors == {"Invalid model string", "Unknown provider", "API key is required"}

C26_ResolverErrorsSurfaceAtSetup ==
  /\ setup.op # "none" =>
       (calls = <<>> /\ embed.status = "none" /\ phase = "idle")
  /\ (setup.op = "vibeMatchers" /\ ~GivenModelObjects) =>
       LET given == setup.input
           r == setup.returned
       IN  IF \/ Unresolvable("resolveLanguageModel", given.languageModel.s, given.apiKeys)
              \/ Unresolvable("resolveEmbeddingModel", given.embeddingModel.s, given.apiKeys)
             THEN /\ r.kind = "error"
                  /\ r.error.message \in ResolverErrors
                  /\ r.matchers = {}
             ELSE /\ r.kind = "config"
                  /\ r.matchers = {"toBeSimilarTo", "toBeVectorSimilarTo", "toMention",
                                   "toSatisfyCriteria"}

C26_Witness ==
  /\ setup.op = "vibeMatchers"
  /\ setup.input.languageModel.s = <<"openai", ":", "other">>
  /\ setup.input.embeddingModel.s = <<"anthropic", ":", "other">>
  /\ \A p \in ProviderNames : setup.input.apiKeys[p] = Some("sk")
  /\ setup.returned.kind = "error"
  /\ setup.returned.error.message = "Unknown provider"
  /\ setup.returned.matchers = {}
  /\ calls = <<>>

C26_MatchersReached ==
  /\ setup.op = "vibeMatchers"
  /\ setup.input.languageModel.s = <<"anthropic", ":", "other">>
  /\ setup.input.embeddingModel.s = <<"mistral", ":", ":">>
  /\ setup.returned.kind = "config"
  /\ setup.returned.matchers = MatcherNames

C26_MissingKeyReached ==
  /\ setup.op = "vibeMatchers"
  /\ setup.input.languageModel.s = <<"anthropic", ":", "other">>
  /\ setup.input.apiKeys["anthropic"] = Some("")
  /\ setup.returned.kind = "error"
  /\ setup.returned.error.message = "API key is required"
  /\ setup.returned.matchers = {}

(***************************************************************************)
(* C27: toBeSimilarTo and toMention with samples = 0 raise no validation   *)
(* error and issue no request; the pass ratio is 0/0 (NaN) and pass is     *)
(* false under every threshold, also under a threshold <= 0, which every   *)
(* batch of one sample or more passes.                                     *)
(***************************************************************************)
C27_ZeroSamplesNeverPass ==
  /\ (IsSampling(inv.matcher) /\ inv.options.samples = Some(0)
        /\ IsString(inv.actual) /\ IsString(inv.arg)) =>
       /\ outcome.kind = "verdict"
       /\ calls = <<>>
       /\ outcome.message.percentage.den = 0
       /\ outcome.message.percentage.num = 0
       /\ ~outcome.pass
  /\ (IsSampling(inv.matcher) /\ outcome.kind = "verdict" /\ Len(calls) >= 1
        /\ GivenThreshold.num <= 0) =>
       outcome.pass

C27_Witness ==
  /\ IsSampling(inv.matcher)
  /\ inv.options.samples = Some(0)
  /\ inv.options.threshold = Some(Ratio(-1, 4))
  /\ outcome.kind = "verdict"
  /\ calls = <<>>
  /\ ~outcome.pass

C27_OneSampleNegativeThresholdReached ==
  /\ IsSampling(inv.matcher)
  /\ inv.options.samples = Some(1)
  /\ inv.options.threshold = Some(Ratio(-1, 4))
  /\ outcome.kind = "verdict"
  /\ ~JudgedPass(1)
  /\ outcome.pass

(***************************************************************************)
(* C28: with samples >= 1 some judgment of a criterion always equals its   *)
(* verdict, so the reported explanation is the one of a judgment that      *)
(* agrees with the verdict; the fall-back to the first judgment is taken   *)
(* only with samples = 0, where the explanation is the empty text.         *)
(***************************************************************************)
AgreeingJudgments(c, samples) ==
  {k \in Block(c, samples) : Answered(k) /\ calls[k].response[1].pass = criteriaResults[c][1].pass}

C28_ExplanationAgreesWithVerdict ==
  (inv.matcher = "toSatisfyCriteria" /\ PassedValidation) =>
    LET samples == OrElse(inv.options.samples, 3)
    IN  \A c \in 1..Len(criteriaResults) :
          criteriaResults[c] # Undefined =>
            IF samples >= 1
              THEN /\ AgreeingJudgments(c, samples) # {}
                   /\ \E k \in AgreeingJudgments(c, samples) :
                        criteriaResults[c][1].explanation = calls[k].response[1].explanation
              ELSE /\ AgreeingJudgments(c, samples) = {}
                   /\ criteriaResults[c][1].explanation = <<>>

C28_Witness ==
  /\ inv.matcher = "toSatisfyCriteria"
  /\ outcome.kind = "verdict"
  /\ inv.options.samples = Some(2)
  /\ JudgedPass(1)
  /\ ~JudgedPass(2)
  /\ ~criteriaResults[1][1].pass
  /\ criteriaResults[1][1].explanation = Explanation(2)

C28_ZeroSamplesReached ==
  /\ inv.matcher = "toSatisfyCriteria"
  /\ outcome.kind = "verdict"
  /\ inv.options.samples = Some(0)
  /\ Len(criteriaResults) = 2
  /\ criteriaResults[2][1].explanation = <<>>
  /\ ~criteriaResults[2][1].pass

(***************************************************************************)
(* C29: turning one judgment from fail to pass, all else the same, never   *)
(* turns a passing verdict into a failing one: for toBeSimilarTo and       *)
(* toMention under every threshold, for toSatisfyCriteria under every mode *)
(* and threshold.                                                          *)
(***************************************************************************)
FailToPass(rs, i) == [rs EXCEPT ![i].pass = TRUE]

(* the criteria evaluated anew from the judgments rs in issue order        *)
Reevaluated(rs, samples) ==
  [c \in 1..Len(GivenCriteria) |->
     CriterionEvaluation(GivenCriteria[c].s,
                         [j \in 1..samples |-> rs[(c - 1) * samples + j]], samples)]

CriteriaPass(rs, samples, mode, t) ==
  CriteriaVerdict(Reevaluated(rs, samples), Len(GivenCriteria), mode, t, samples).pass

C29_MorePassingNeverFails ==
  /\ (IsSampling(inv.matcher) /\ outcome.kind = "verdict") =>
       LET rs == Values(results)
           n == Len(calls)
       IN  /\ outcome.pass = ConsensusResult(rs, n, GivenThreshold).pass
           /\ \A i \in 1..Len(rs), t \in Thresholds :
                (~rs[i].pass /\ ConsensusResult(rs, n, t).pass) =>
                  ConsensusResult(FailToPass(rs, i), n, t).pass
  /\ (inv.matcher = "toSatisfyCriteria" /\ outcome.kind = "verdict") =>
       LET rs == Values(results)
           samples == OrElse(inv.options.samples, 3)
       IN  /\ outcome.pass = CriteriaPass(rs, samples, GivenMode, GivenThreshold)
           /\ \A i \in 1..Len(rs), m \in Modes, t \in Thresholds :
                (~rs[i].pass /\ CriteriaPass(rs, samples, m, t)) =>
                  CriteriaPass(FailToPass(rs, i), samples, m, t)

C29_Witness ==
  /\ inv.matcher = "toSatisfyCriteria"
  /\ outcome.kind = "verdict"
  /\ inv.options.mode = Some("any")
  /\ Len(calls) = 4
  /\ Len(GivenCriteria) = 2
  /\ JudgedPass(1)
  /\ JudgedPass(2)
  /\ ~JudgedPass(3)
  /\ JudgedPass(4)
  /\ outcome.pass

C29_SamplingReached ==
  /\ IsSampling(inv.matcher)
  /\ outcome.kind = "verdict"
  /\ Len(calls) = 3
  /\ ~JudgedPass(2)
  /\ PassingIn(1..3) = 2
  /\ inv.options.threshold = Some(Ratio(1, 2))
  /\ outcome.pass

(***************************************************************************)
(* C30: an assertion settles once.  While it is pending no request has     *)
(* failed; the step in which a request fails while the assertion is        *)
(* pending settles it with the error of that request, whatever its issue   *)
(* index and whatever requests are still outstanding; no later completion  *)
(* or failure changes a settled outcome.                                   *)
(***************************************************************************)
FailsNow(i) ==
  /\ calls[i].status = "pending"
  /\ Len(calls') = Len(calls)
  /\ calls'[i].status = "rejected"

C30_FirstFailureInTimeSettles ==
  [][/\ phase = "pending" => ~SomeRejected
     /\ phase = "settled" => (phase' = "settled" /\ outcome' = outcome)
     /\ \A i \in 1..Len(calls) :
          (phase = "pending" /\ FailsNow(i)) =>
            (phase' = "settled" /\ outcome' = Thrown(ErrBackend, i))]_vars

C30_Witness ==
  /\ Len(calls) = 3
  /\ calls[1].status = "rejected"
  /\ calls[2].status = "rejected"
  /\ calls[3].status = "pending"
  /\ outcome = Thrown(ErrBackend, 2)

C30_LaterCompletionReached ==
  /\ Len(calls) = 3
  /\ calls[1].status = "fulfilled"
  /\ calls[2].status = "rejected"
  /\ calls[3].status = "rejected"
  /\ results[1] # Undefined
  /\ outcome = Thrown(ErrBackend, 3)

====
